---- MODULE Spec2Model ----
(***************************************************************************)
(* Model of advanced_translator.py: the JSON history file                  *)
(* (save_history / load_history), the two translation providers,           *)
(* speak_text and the Translate button handler.                            *)
(*                                                                         *)
(* Text is a sequence of characters (one-character strings); the history   *)
(* file holds a sequence of bytes.  json.dumps, json.loads and the UTF-8   *)
(* codec of Path.read_text / Path.write_text are modelled by what they do  *)
(* on the alphabet used here, so that a write followed by a read is a      *)
(* computation and not an identity.                                        *)
(***************************************************************************)
EXTENDS Integers, Sequences, FiniteSets, TLC

(* ------------------------------ bounds -------------------------------- *)
\* How many save_history calls may start in one behaviour.
MaxSaves == 2

(* ---------------------------- characters ------------------------------ *)
QUOTE == "\""
BSL == "\\"
NL == "\n"
TAB == "\t"
SP == " "
\* One character outside ASCII (U+00E9); UTF-8 writes it as two bytes.
EACUTE == "e'"
BYTE_C3 == "xC3"
BYTE_A9 == "xA9"

\* str.strip() and the JSON decoder's whitespace, within the alphabet.
Whitespace == {SP, NL, TAB}
\* Characters below U+0020: json refuses them raw inside a string.
ControlChars == {NL, TAB}

(* ------------------------- UTF-8 (read_text / write_text) ------------- *)
\* str.encode("utf-8") of text[lo..hi], by halves (the text of a whole file is
\* long, and the recursion stays shallow this way).
utf8_char(c) == IF c = EACUTE THEN <<BYTE_C3, BYTE_A9>> ELSE <<c>>

RECURSIVE utf8_encode_range(_, _, _)
utf8_encode_range(text, lo, hi) ==
  IF lo > hi THEN <<>>
  ELSE IF lo = hi THEN utf8_char(text[lo])
  ELSE LET mid == (lo + hi) \div 2
       IN  utf8_encode_range(text, lo, mid) \o utf8_encode_range(text, mid + 1, hi)

utf8_encode(text) == utf8_encode_range(text, 1, Len(text))

\* bytes.decode("utf-8"): [ok |-> FALSE] stands for UnicodeDecodeError.  A lead
\* byte needs its continuation byte right after it, and a continuation byte
\* its lead byte right before it.
utf8_wellformed(bytes) ==
  \A i \in 1..Len(bytes) :
    /\ bytes[i] = BYTE_C3 => (i < Len(bytes) /\ bytes[i + 1] = BYTE_A9)
    /\ bytes[i] = BYTE_A9 => (i > 1 /\ bytes[i - 1] = BYTE_C3)

IsNotContinuation(b) == b # BYTE_A9

utf8_decode(bytes) ==
  IF utf8_wellformed(bytes)
  THEN LET leads == SelectSeq(bytes, IsNotContinuation)
       IN  [ok |-> TRUE,
            text |-> [i \in 1..Len(leads) |->
                        IF leads[i] = BYTE_C3 THEN EACUTE ELSE leads[i]]]
  ELSE [ok |-> FALSE, text |-> <<>>]

(* ----------------------------- JSON values ---------------------------- *)
\* A Python value as json.loads builds it: a str, None, a list, or a dict
\* (its items in insertion order, as <<key, value>> pairs).
Str(s) == [t |-> "str", v |-> s]
Null == [t |-> "null", v |-> <<>>]
List(xs) == [t |-> "list", v |-> xs]
Dict(pairs) == [t |-> "dict", v |-> pairs]

(* ------------------------------ json.dumps ---------------------------- *)
\* json.encoder.encode_basestring (ensure_ascii=False): backslash, quote and
\* control characters are escaped, everything else is written as it is.
\* (A variant that writes every character as it is.)
EscapeChar_raw(c) == <<c>>

EscapeChar(c) ==
  IF c = QUOTE THEN <<BSL, QUOTE>>
  ELSE IF c = BSL THEN <<BSL, BSL>>
  ELSE IF c = NL THEN <<BSL, "n">>
  ELSE IF c = TAB THEN <<BSL, "t">>
  ELSE <<c>>

RECURSIVE EscapeAll(_)
EscapeAll(s) == IF s = <<>> THEN <<>> ELSE EscapeChar(Head(s)) \o EscapeAll(Tail(s))

encode_basestring(s) == <<QUOTE>> \o EscapeAll(s) \o <<QUOTE>>

\* indent=2: a line break followed by two spaces per nesting level.
newline_indent(level) == <<NL>> \o [i \in 1..(2 * level) |-> SP]

RECURSIVE iterencode(_, _), iterencode_list(_, _, _), iterencode_dict(_, _, _)
iterencode(o, level) ==
  IF o.t = "str" THEN encode_basestring(o.v)
  ELSE IF o.t = "null" THEN <<"n", "u", "l", "l">>
  ELSE IF o.t = "list"
       THEN IF o.v = <<>> THEN <<"[", "]">>
            ELSE <<"[">> \o iterencode_list(o.v, 1, level + 1)
                 \o newline_indent(level) \o <<"]">>
  ELSE IF o.v = <<>> THEN <<"{", "}">>
       ELSE <<"{">> \o iterencode_dict(o.v, 1, level + 1)
            \o newline_indent(level) \o <<"}">>

\* The items from the i-th on, each on its own line, separated by ",".
iterencode_list(xs, i, level) ==
  IF i > Len(xs) THEN <<>>
  ELSE newline_indent(level) \o iterencode(xs[i], level)
       \o (IF i < Len(xs) THEN <<",">> ELSE <<>>)
       \o iterencode_list(xs, i + 1, level)

\* "key": value, with the separators (",", ": ") that indent selects.
iterencode_dict(ps, i, level) ==
  IF i > Len(ps) THEN <<>>
  ELSE newline_indent(level) \o encode_basestring(ps[i][1]) \o <<":", SP>>
       \o iterencode(ps[i][2], level)
       \o (IF i < Len(ps) THEN <<",">> ELSE <<>>)
       \o iterencode_dict(ps, i + 1, level)

json_dumps(o) == iterencode(o, 0)

(* ------------------------------ json.loads ---------------------------- *)
\* A scanner's answer: the value and the index after it, or a failure
\* (JSONDecodeError).  The decoder below is json.decoder restricted to the
\* values above: numbers, true/false and \u escapes do not occur in any text
\* of this model.
ScanFail == [ok |-> FALSE, val |-> Null, end |-> 0]
ScanOk(v, e) == [ok |-> TRUE, val |-> v, end |-> e]

RECURSIVE SkipWs(_, _)
SkipWs(s, i) == IF i <= Len(s) /\ s[i] \in Whitespace THEN SkipWs(s, i + 1) ELSE i

Unescape(c) ==
  IF c = "n" THEN NL ELSE IF c = "t" THEN TAB ELSE c

\* json.decoder.py_scanstring, strict: from index i (after the opening quote)
\* to the closing quote.
RECURSIVE scanstring(_, _, _)
scanstring(s, i, acc) ==
  IF i > Len(s) THEN ScanFail
  ELSE IF s[i] = QUOTE THEN ScanOk(acc, i + 1)
  ELSE IF s[i] \in ControlChars THEN ScanFail
  ELSE IF s[i] = BSL
       THEN IF i + 1 <= Len(s) /\ s[i + 1] \in {QUOTE, BSL, "/", "n", "t"}
            THEN scanstring(s, i + 2, Append(acc, Unescape(s[i + 1])))
            ELSE ScanFail
  ELSE scanstring(s, i + 1, Append(acc, s[i]))

\* dict[key] = value: a repeated key keeps its place and takes the new value.
RECURSIVE PutPair(_, _, _)
PutPair(pairs, k, v) ==
  IF pairs = <<>> THEN <<<<k, v>>>>
  ELSE IF Head(pairs)[1] = k THEN <<<<k, v>>>> \o Tail(pairs)
  ELSE <<Head(pairs)>> \o PutPair(Tail(pairs), k, v)

IsNullAt(s, i) ==
  /\ i + 3 <= Len(s)
  /\ <<s[i], s[i + 1], s[i + 2], s[i + 3]>> = <<"n", "u", "l", "l">>

RECURSIVE scan_once(_, _), JSONArray(_, _), ArrayItems(_, _, _), JSONObject(_, _), ObjectItems(_, _, _)
scan_once(s, i) ==
  IF i > Len(s) THEN ScanFail
  ELSE IF s[i] = QUOTE
       THEN LET r == scanstring(s, i + 1, <<>>)
            IN  IF r.ok THEN ScanOk(Str(r.val), r.end) ELSE ScanFail
  ELSE IF s[i] = "{" THEN JSONObject(s, i + 1)
  ELSE IF s[i] = "[" THEN JSONArray(s, i + 1)
  ELSE IF IsNullAt(s, i) THEN ScanOk(Null, i + 4)
  ELSE ScanFail

JSONArray(s, i) ==
  LET j == SkipWs(s, i)
  IN  IF j <= Len(s) /\ s[j] = "]" THEN ScanOk(List(<<>>), j + 1)
      ELSE ArrayItems(s, j, <<>>)

ArrayItems(s, i, values) ==
  LET r == scan_once(s, i)
  IN  IF ~r.ok THEN ScanFail
      ELSE LET j == SkipWs(s, r.end)
               vs == Append(values, r.val)
           IN  IF j > Len(s) THEN ScanFail
               ELSE IF s[j] = "]" THEN ScanOk(List(vs), j + 1)
               ELSE IF s[j] # "," THEN ScanFail
               ELSE ArrayItems(s, SkipWs(s, j + 1), vs)

JSONObject(s, i) ==
  LET j == SkipWs(s, i)
  IN  IF j > Len(s) THEN ScanFail
      ELSE IF s[j] = "}" THEN ScanOk(Dict(<<>>), j + 1)
      ELSE IF s[j] # QUOTE THEN ScanFail
      ELSE ObjectItems(s, j + 1, <<>>)

ObjectItems(s, i, pairs) ==
  LET k == scanstring(s, i, <<>>)
  IN  IF ~k.ok THEN ScanFail
      ELSE LET c == SkipWs(s, k.end)
           IN  IF c > Len(s) \/ s[c] # ":" THEN ScanFail
               ELSE LET r == scan_once(s, SkipWs(s, c + 1))
                    IN  IF ~r.ok THEN ScanFail
                        ELSE LET j == SkipWs(s, r.end)
                                 ps == PutPair(pairs, k.val, r.val)
                             IN  IF j > Len(s) THEN ScanFail
                                 ELSE IF s[j] = "}" THEN ScanOk(Dict(ps), j + 1)
                                 ELSE IF s[j] # "," THEN ScanFail
                                 ELSE LET q == SkipWs(s, j + 1)
                                      IN  IF q > Len(s) \/ s[q] # QUOTE THEN ScanFail
                                          ELSE ObjectItems(s, q + 1, ps)

\* json.loads: one value, with nothing but whitespace around it.
json_loads(s) ==
  LET r == scan_once(s, SkipWs(s, 1))
  IN  IF r.ok /\ SkipWs(s, r.end) = Len(s) + 1
      THEN [exc |-> "none", val |-> r.val]
      ELSE [exc |-> "JSONDecodeError", val |-> Null]

(* --------------------------- str and datetime ------------------------- *)
RECURSIVE lstrip(_), rstrip(_)
lstrip(s) == IF s # <<>> /\ Head(s) \in Whitespace THEN lstrip(Tail(s)) ELSE s
rstrip(s) ==
  IF s # <<>> /\ s[Len(s)] \in Whitespace THEN rstrip(SubSeq(s, 1, Len(s) - 1)) ELSE s
\* str.strip()
strip(s) == rstrip(lstrip(s))

Digits == <<"0", "1", "2", "3", "4", "5", "6", "7", "8", "9">>
RECURSIVE Decimal(_)
Decimal(n) ==
  IF n < 10 THEN <<Digits[n + 1]>> ELSE Decimal(n \div 10) \o <<Digits[(n % 10) + 1]>>
\* datetime.utcnow().isoformat() + "Z": the clock is a count of ticks, written
\* in decimal.
utc_timestamp(now) == Decimal(now) \o <<"Z">>

(* --------------------------- program constants ------------------------ *)
GOOGLE == <<"G", "o", "o", "g", "l", "e">>
OPENAI == <<"O", "p", "e", "n", "A", "I">>
SUPPORTED_PROVIDERS == {GOOGLE, OPENAI}
DEFAULT_LIMIT == 20

K_timestamp == <<"t", "i", "m", "e", "s", "t", "a", "m", "p">>
K_src_lang == <<"s", "r", "c", "_", "l", "a", "n", "g">>
K_dest_lang == <<"d", "e", "s", "t", "_", "l", "a", "n", "g">>
K_src_text == <<"s", "r", "c", "_", "t", "e", "x", "t">>
K_dest_text == <<"d", "e", "s", "t", "_", "t", "e", "x", "t">>
K_provider == <<"p", "r", "o", "v", "i", "d", "e", "r">>

\* The dict that save_history builds, its keys in the order of the literal.
Entry(ts, src_lang, dest_lang, src_text, dest_text, provider) ==
  Dict(<< <<K_timestamp, Str(ts)>>,
          <<K_src_lang, Str(src_lang)>>,
          <<K_dest_lang, Str(dest_lang)>>,
          <<K_src_text, Str(src_text)>>,
          <<K_dest_text, Str(dest_text)>>,
          <<K_provider, Str(provider)>> >>)

(* ------------------------------ the inputs ---------------------------- *)
EN == <<"e", "n">>
FR == <<"f", "r">>
FR_CA == <<"f", "r", "-", "c", "a">>
\* googletrans.LANGUAGES, as far as the codes of this model go: it has no
\* entry for a regional code such as fr-ca.
GOOGLE_LANGUAGES == {EN, FR}

\* What the user may have in the text area: blank text, and a text with every
\* character that json escapes or UTF-8 widens.
Tricky == <<QUOTE, BSL, NL, EACUTE, BSL, "n">>
\* ... and a text without a letter: langdetect finds no features in it.
InputTexts == {<<SP>>, Tricky, <<"?">>}
TargetLangs == {<<SP>>, FR, FR_CA}
\* What a translation backend may answer with.
BackendTexts == {<<SP, EACUTE, QUOTE, NL>>, <<SP>>}
\* The outcome of the call that leaves the program: the provider's request, and
\* its answer when the request succeeds.
Envs == [backend : {"ok", "raise"}, answer : BackendTexts]
\* The limits load_history is tried with: none, fewer than, as many as and more
\* than the records a file of this model can hold, and the default.
Limits == (0..(MaxSaves + 1)) \cup {DEFAULT_LIMIT}

\* The sets a session's inputs are drawn from: the sidebar and the text
\* fields, the outcomes of the outside calls, the limit of load_history.
World ==
  [providers |-> SUPPORTED_PROVIDERS, texts |-> InputTexts, langs |-> TargetLangs,
   envs |-> Envs, tts |-> {"ok", "bad_lang", "no_service"}, auto_play |-> BOOLEAN,
   limits |-> {DEFAULT_LIMIT}]
\* The same with every limit.
WorldLimits == [World EXCEPT !.limits = Limits]
\* Sessions whose translations and speech all succeed: what is left to vary
\* is the order of their steps.
WorldRace ==
  [providers |-> {OPENAI}, texts |-> {Tricky}, langs |-> {FR},
   envs |-> {e \in Envs : e.backend = "ok" /\ strip(e.answer) # <<>>},
   tts |-> {"ok"}, auto_play |-> {TRUE}, limits |-> {DEFAULT_LIMIT}]

(* ------------------------------ providers ----------------------------- *)
\* What a call gives: the value it returns, or the exception it raises.
NoValue(e) == [exc |-> e, val |-> Null]
Value(v) == [exc |-> "none", val |-> v]

Raised(e) == [called |-> TRUE, exc |-> e, src_lang |-> <<>>, text |-> <<>>]
Returned(src, text) == [called |-> TRUE, exc |-> "none", src_lang |-> src, text |-> text]
NotTranslated == [called |-> FALSE, exc |-> "none", src_lang |-> <<>>, text |-> <<>>]

Letters ==
  {"a", "b", "c", "d", "e", "f", "g", "h", "i", "j", "k", "l", "m", "n", "o", "p",
   "q", "r", "s", "t", "u", "v", "w", "x", "y", "z", EACUTE}
\* langdetect.detect: a language code (English, whatever the text, in this
\* model), or LangDetectException when the text has no letter in it.
detect(text) ==
  IF \E i \in 1..Len(text) : text[i] \in Letters THEN Value(EN)
  ELSE NoValue("LangDetectException")

\* GoogleProvider.translate
GoogleProvider_translate(text, dest_lang, env) ==
  IF detect(text).exc # "none" THEN Raised(detect(text).exc)
  ELSE IF dest_lang \notin GOOGLE_LANGUAGES THEN Raised("ValueError")
  ELSE IF env.backend = "raise" THEN Raised("RequestError")
  ELSE Returned(detect(text).val, env.answer)

\* OpenAIProvider.translate
OpenAIProvider_translate(text, dest_lang, env) ==
  IF detect(text).exc # "none" THEN Raised(detect(text).exc)
  ELSE IF env.backend = "raise" THEN Raised("RequestError")
  ELSE Returned(detect(text).val, strip(env.answer))

\* translator.translate, for the provider chosen in the sidebar.
translate(provider, text, dest_lang, env) ==
  IF provider = GOOGLE THEN GoogleProvider_translate(text, dest_lang, env)
  ELSE OpenAIProvider_translate(text, dest_lang, env)

(* ------------------------------ speak_text ---------------------------- *)
NotSpoken == [called |-> FALSE, attempts |-> <<>>, error |-> "none", audio |-> <<>>]
\* gTTS(text=text, lang=lang) and tts.save: the exception raised, if any.  gTTS
\* asserts that there is text to speak, refuses a language code it does not
\* know, and fails when its service cannot be reached; tts is what the outside
\* decides.
gTTS(text, lang, tts) ==
  IF strip(text) = <<>> THEN "AssertionError"
  ELSE IF tts = "bad_lang" THEN "ValueError"
  ELSE IF tts = "no_service" THEN "gTTSError"
  ELSE "none"

\* (A variant that asks again, for the first two letters of the code.)
speak_text_retry(text, lang, tts) ==
  [called |-> TRUE,
   attempts |-> IF gTTS(text, lang, tts) # "none" THEN <<lang, SubSeq(lang, 1, 2)>>
                ELSE <<lang>>,
   error |-> gTTS(text, lang, tts),
   audio |-> IF gTTS(text, lang, tts) # "none" THEN <<>> ELSE <<"m", "p", "3">>]

\* speak_text: one gTTS request with the language code as given; any exception
\* is caught and gives b"".  attempts lists the codes gTTS was asked for, error
\* the exception caught.
speak_text(text, lang, tts) ==
  [called |-> TRUE,
   attempts |-> <<lang>>,
   error |-> gTTS(text, lang, tts),
   audio |-> IF gTTS(text, lang, tts) # "none" THEN <<>> ELSE <<"m", "p", "3">>]

(* ---------------------------- the history file ------------------------ *)
AbsentFile == [exists |-> FALSE, bytes |-> <<>>]
FileOf(bytes) == [exists |-> TRUE, bytes |-> bytes]

\* Path.touch(exist_ok=True)
touch(f) == IF f.exists THEN f ELSE FileOf(<<>>)

\* Path.read_text(encoding="utf-8")
read_text(f) ==
  IF ~f.exists THEN [exc |-> "OSError", text |-> <<>>]
  ELSE LET d == utf8_decode(f.bytes)
       IN  IF d.ok THEN [exc |-> "none", text |-> d.text]
           ELSE [exc |-> "UnicodeDecodeError", text |-> <<>>]

\* Path.write_text(text, encoding="utf-8"), once the file is open
write_text(text) == FileOf(utf8_encode(text))

\* save_history, the try block: what data is bound to.
save_history_read(f) ==
  LET r == read_text(f)
  IN  IF r.exc = "OSError" THEN Value(List(<<>>))
      ELSE IF r.exc # "none" THEN NoValue(r.exc)
      ELSE IF r.text = <<>> THEN Value(List(<<>>))
      ELSE LET j == json_loads(r.text)
           IN  IF j.exc = "JSONDecodeError" THEN Value(List(<<>>)) ELSE Value(j.val)

\* (Variants: the entry put first; the entry alone.)
data_append_front(data, entry) ==
  IF data.t = "list" THEN [exc |-> "none", val |-> List(<<entry>> \o data.v)]
  ELSE [exc |-> "AttributeError", val |-> Null]
data_append_alone(data, entry) ==
  IF data.t = "list" THEN [exc |-> "none", val |-> List(<<entry>>)]
  ELSE [exc |-> "AttributeError", val |-> Null]

\* data.append(entry): only a list has the method.
data_append(data, entry) ==
  IF data.t = "list" THEN Value(List(Append(data.v, entry)))
  ELSE NoValue("AttributeError")

Max(a, b) == IF a > b THEN a ELSE b
Min(a, b) == IF a < b THEN a ELSE b

\* value[-limit:]: a negative start counts from the end, and -0 is 0.
slice_from_minus(value, limit) ==
  IF value.t \in {"list", "str"}
  THEN LET n == Len(value.v)
           start == IF 0 - limit < 0 THEN Max(n - limit, 0) ELSE Min(0 - limit, n)
       IN  Value([t |-> value.t, v |-> SubSeq(value.v, start + 1, n)])
  ELSE NoValue("TypeError")

\* load_history up to json.loads(content): the value parsed, or the return
\* value or exception that ends the call there.
load_history_read(f) ==
  IF ~f.exists THEN [parsed |-> FALSE, exc |-> "none", val |-> List(<<>>)]
  ELSE LET r == read_text(f)
       IN  IF r.exc = "OSError" THEN [parsed |-> FALSE, exc |-> "none", val |-> List(<<>>)]
           ELSE IF r.exc # "none" THEN [parsed |-> FALSE, exc |-> r.exc, val |-> Null]
           ELSE LET j == json_loads(r.text)
                IN  IF j.exc = "JSONDecodeError"
                    THEN [parsed |-> FALSE, exc |-> "none", val |-> List(<<>>)]
                    ELSE [parsed |-> TRUE, exc |-> "none", val |-> j.val]

\* ... and its [-limit:].
load_history_slice(j, limit) ==
  IF j.parsed THEN slice_from_minus(j.val, limit) ELSE [exc |-> j.exc, val |-> j.val]

\* load_history(limit)
load_history(f, limit) == load_history_slice(load_history_read(f), limit)

(* --------------------------- initial history files -------------------- *)
\* A record of an earlier session.
SeedEntry == Entry(utc_timestamp(0), EN, FR, <<"h", "i">>, <<"s", EACUTE>>, GOOGLE)
SeedBytes == utf8_encode(json_dumps(List(<<SeedEntry>>)))
\* The file as an interrupted write leaves it: cut inside a record, and cut
\* between the two bytes of a character.
HalfWritten == SubSeq(SeedBytes, 1, Len(SeedBytes) \div 2)
CutInCharacter ==
  LET b == SeedBytes
  IN  SubSeq(b, 1, CHOOSE i \in 1..Len(b) : b[i] = BYTE_C3)

InitFiles ==
  { AbsentFile,
    FileOf(<<>>),
    FileOf(<<"o", "o", "p", "s">>),
    FileOf(HalfWritten),
    FileOf(CutInCharacter),
    FileOf(<<"{", "}">>),
    FileOf(<<"n", "u", "l", "l">>),
    FileOf(<<QUOTE, "h", "i", QUOTE>>),
    FileOf(<<"[", "]">>),
    FileOf(SeedBytes),
    FileOf(SeedBytes \o <<NL>>) }

(* -------------------------------- state ------------------------------- *)
Procs == {1, 2}

VARIABLES
  file,      \* the history file: [exists, bytes]
  clock,     \* the UTC clock, in ticks
  saves,     \* save_history calls made so far
  pc,        \* where each session's script run stands
  call,      \* the arguments of the save_history / speak_text calls of the run
  data,      \* save_history's local list, the new entry appended
  run,       \* what the run has put on the page and the calls it made
  before,    \* the file as it was when the run began
  seen,      \* how many appends had completed when the session read the file
  appended,  \* the entries of the completed save_history calls, in order
  raced,     \* some save wrote over a file that changed after it had read it
  fresh      \* the behaviour began with the file absent or empty

vars == <<file, clock, saves, pc, call, data, run, before, seen, appended, raced, fresh>>

NoCall == [src_lang |-> <<>>, dest_lang |-> <<>>, src_text |-> <<>>,
           dest_text |-> <<>>, provider |-> <<>>]
NoHistory == [called |-> FALSE, limit |-> 0, exc |-> "none", val |-> Null]
CleanRun ==
  [shown |-> <<>>, failure |-> "none", translated |-> NotTranslated,
   speech |-> NotSpoken, played |-> FALSE, history |-> NoHistory, calls |-> <<>>]

Init ==
  /\ file \in InitFiles
  /\ clock = 1
  /\ saves = 0
  /\ pc = [p \in Procs |-> "ready"]
  /\ call = [p \in Procs |-> NoCall]
  /\ data = [p \in Procs |-> Null]
  /\ run = [p \in Procs |-> CleanRun]
  /\ before = [p \in Procs |-> AbsentFile]
  /\ seen = [p \in Procs |-> 0]
  /\ appended = <<>>
  /\ raced = FALSE
  /\ fresh = (file \in {AbsentFile, FileOf(<<>>)})

(* ------------------------------- actions ------------------------------ *)
\* The Translate button, up to the return of translator.translate.
Translate(p, w) ==
  /\ pc[p] = "ready"
  /\ \E provider \in w.providers, input_text \in w.texts,
        target_lang \in w.langs, env \in w.envs :
       IF strip(input_text) = <<>>
       THEN /\ run' = [run EXCEPT ![p].shown = <<"no_text">>]
            /\ pc' = [pc EXCEPT ![p] = "render"]
            /\ UNCHANGED <<call, saves>>
       ELSE IF strip(target_lang) = <<>>
       THEN /\ run' = [run EXCEPT ![p].shown = <<"no_lang">>]
            /\ pc' = [pc EXCEPT ![p] = "render"]
            /\ UNCHANGED <<call, saves>>
       ELSE LET out == translate(provider, input_text, target_lang, env)
            IN  IF out.exc # "none"
                THEN /\ run' = [run EXCEPT ![p].shown = <<"failed">>,
                                           ![p].failure = out.exc,
                                           ![p].translated = out,
                                           ![p].calls = <<"translate">>]
                     /\ pc' = [pc EXCEPT ![p] = "render"]
                     /\ UNCHANGED <<call, saves>>
                ELSE /\ saves < MaxSaves
                     /\ saves' = saves + 1
                     /\ run' = [run EXCEPT ![p].shown = <<"success">>,
                                           ![p].translated = out,
                                           ![p].calls = <<"translate">>]
                     /\ call' = [call EXCEPT ![p] =
                                   [src_lang |-> out.src_lang, dest_lang |-> target_lang,
                                    src_text |-> input_text, dest_text |-> out.text,
                                    provider |-> provider]]
                     /\ pc' = [pc EXCEPT ![p] = "save_read"]
  /\ before' = [before EXCEPT ![p] = file]
  /\ UNCHANGED <<file, clock, data, seen, appended, raced, fresh>>

\* A run of the script in which the Translate button was not pressed.
Browse(p) ==
  /\ pc[p] = "ready"
  /\ pc' = [pc EXCEPT ![p] = "render"]
  /\ before' = [before EXCEPT ![p] = file]
  /\ UNCHANGED <<file, clock, saves, call, data, run, seen, appended, raced, fresh>>

\* save_history up to data.append(entry): touch, the entry with its timestamp,
\* the read and the parse.  An exception leaves save_history and is shown by
\* the handler's except clause.
SaveRead(p) ==
  /\ pc[p] = "save_read"
  /\ LET touched == touch(file)
         entry == Entry(utc_timestamp(clock), call[p].src_lang, call[p].dest_lang,
                        call[p].src_text, call[p].dest_text, call[p].provider)
         r == save_history_read(touched)
         a == IF r.exc = "none" THEN data_append(r.val, entry) ELSE r
     IN  /\ file' = touched
         /\ clock' = clock + 1
         /\ IF a.exc = "none"
            THEN /\ data' = [data EXCEPT ![p] = a.val]
                 /\ seen' = [seen EXCEPT ![p] = Len(appended)]
                 /\ run' = [run EXCEPT ![p].calls = Append(@, "save_history")]
                 /\ pc' = [pc EXCEPT ![p] = "save_open"]
            ELSE /\ run' = [run EXCEPT ![p].calls = Append(@, "save_history"),
                                       ![p].shown = Append(@, "failed"),
                                       ![p].failure = a.exc]
                 /\ pc' = [pc EXCEPT ![p] = "render"]
                 /\ UNCHANGED <<data, seen>>
  /\ UNCHANGED <<saves, call, before, appended, raced, fresh>>

\* write_text opens the file for writing, which empties it.
SaveOpen(p) ==
  /\ pc[p] = "save_open"
  /\ file' = FileOf(<<>>)
  /\ pc' = [pc EXCEPT ![p] = "save_write"]
  /\ UNCHANGED <<clock, saves, call, data, run, before, seen, appended, raced, fresh>>

\* write_text writes json.dumps(data, ensure_ascii=False, indent=2) and
\* save_history returns.
SaveWrite(p) ==
  /\ pc[p] = "save_write"
  /\ file' = write_text(json_dumps(data[p]))
  /\ appended' = Append(appended, data[p].v[Len(data[p].v)])
  /\ raced' = (raced \/ seen[p] # Len(appended))
  /\ data' = [data EXCEPT ![p] = Null]
  /\ run' = [run EXCEPT ![p].calls = Append(@, "saved")]
  /\ pc' = [pc EXCEPT ![p] = "speak"]
  /\ UNCHANGED <<clock, saves, call, before, seen, fresh>>

\* speak_text(translated_text, lang=target_lang), then st.audio.
Speak(p, w) ==
  /\ pc[p] = "speak"
  /\ \E tts \in w.tts, auto_play_audio \in w.auto_play :
       LET s == speak_text(call[p].dest_text, call[p].dest_lang, tts)
       IN  run' = [run EXCEPT ![p].speech = s,
                              ![p].played = (s.audio # <<>> /\ auto_play_audio),
                              ![p].calls = Append(@, "speak_text")]
  /\ pc' = [pc EXCEPT ![p] = "render"]
  /\ UNCHANGED <<file, clock, saves, call, data, before, seen, appended, raced, fresh>>

\* The history expander: load_history(limit).  The script calls it with the
\* default limit; limits are the limits the caller may pass.
Render(p, limits) ==
  /\ pc[p] = "render"
  /\ LET j == load_history_read(file)
     IN  \E limit \in limits :
           LET h == load_history_slice(j, limit)
           IN  run' = [run EXCEPT ![p].history =
                         [called |-> TRUE, limit |-> limit, exc |-> h.exc, val |-> h.val],
                                  ![p].calls = Append(@, "load_history")]
  /\ pc' = [pc EXCEPT ![p] = "done"]
  /\ UNCHANGED <<file, clock, saves, call, data, before, seen, appended, raced, fresh>>

\* The next interaction: Streamlit runs the script again on a cleared page.
Rerun(p) ==
  /\ pc[p] = "done"
  /\ pc' = [pc EXCEPT ![p] = "ready"]
  /\ run' = [run EXCEPT ![p] = CleanRun]
  /\ call' = [call EXCEPT ![p] = NoCall]
  /\ before' = [before EXCEPT ![p] = AbsentFile]
  /\ UNCHANGED <<file, clock, saves, data, seen, appended, raced, fresh>>

Step(p, w) ==
  \/ Translate(p, w)
  \/ Browse(p)
  \/ SaveRead(p)
  \/ SaveOpen(p)
  \/ SaveWrite(p)
  \/ Speak(p, w)
  \/ Render(p, w.limits)
  \/ Rerun(p)

\* One session, the single-user system the program is written for.
Next == Step(1, World)
Spec == Init /\ [][Next]_vars

\* One session that begins without a history, load_history tried with every
\* limit.
InitFresh == Init /\ fresh
NextLimits == Step(1, WorldLimits)
SpecLimits == InitFresh /\ [][NextLimits]_vars

\* Two sessions on the same history file, absent or holding one record when
\* they begin.
NextRace == \E p \in Procs : Step(p, WorldRace)
InitRace == Init /\ file \in {AbsentFile, FileOf(SeedBytes)}
SpecRace == InitRace /\ [][NextRace]_vars

(* ------------------------- vocabulary of the claims ------------------- *)
InSeq(x, xs) == \E i \in 1..Len(xs) : xs[i] = x
Count(x, xs) == Cardinality({i \in 1..Len(xs) : xs[i] = x})
IsSuffix(a, b) == Len(a) <= Len(b) /\ SubSeq(b, Len(b) - Len(a) + 1, Len(b)) = a
LastN(xs, k) == SubSeq(xs, Len(xs) - k + 1, Len(xs))

\* The file holds a JSON array; the elements of that array.
HoldsArray(f) ==
  LET j == load_history_read(f) IN j.parsed /\ j.val.t = "list"
Records(f) ==
  LET j == load_history_read(f)
  IN  IF j.parsed /\ j.val.t = "list" THEN j.val.v ELSE <<>>

RecordKeys == <<K_timestamp, K_src_lang, K_dest_lang, K_src_text, K_dest_text, K_provider>>
IsRecord(v) ==
  /\ v.t = "dict"
  /\ Len(v.v) = Len(RecordKeys)
  /\ \A i \in 1..Len(RecordKeys) : v.v[i][1] = RecordKeys[i] /\ v.v[i][2].t = "str"
Field(rec, key) == rec.v[CHOOSE i \in 1..Len(rec.v) : rec.v[i][1] = key][2].v
\* rec is the record of the call c of save_history.
IsRecordOf(rec, c) ==
  /\ IsRecord(rec)
  /\ Field(rec, K_src_lang) = c.src_lang
  /\ Field(rec, K_dest_lang) = c.dest_lang
  /\ Field(rec, K_src_text) = c.src_text
  /\ Field(rec, K_dest_text) = c.dest_text
  /\ Field(rec, K_provider) = c.provider

\* The session's run has called save_history and the call is over.
SaveEnded(p) == InSeq("save_history", run[p].calls) /\ pc[p] \in {"speak", "render", "done"}
\* ... and it returned.
SaveReturned(p) == SaveEnded(p) /\ InSeq("saved", run[p].calls)

(* -------------------------------- C1 ---------------------------------- *)
\* The prior states C1 lists: absent, empty, a JSON array of records, content
\* that is not parseable JSON.
C1_PriorState(f) ==
  \/ ~f.exists
  \/ f.bytes = <<>>
  \/ HoldsArray(f) /\ \A i \in 1..Len(Records(f)) : IsRecord(Records(f)[i])
  \/ ~load_history_read(f).parsed

\* C1: from each of these prior states of the file, save_history(r) followed by
\* load_history(limit=1) returns the one-element sequence <<r>>.
C1_SaveThenLoadOne ==
  (SaveEnded(1) /\ C1_PriorState(before[1]))
    => /\ SaveReturned(1)
       /\ LET h == load_history(file, 1)
          IN  /\ h.exc = "none"
              /\ h.val.t = "list"
              /\ Len(h.val.v) = 1
              /\ IsRecordOf(h.val.v[1], call[1])

(* -------------------------------- C2 ---------------------------------- *)
\* C2: load_history never raises, and returns an empty sequence whenever the
\* file holds anything other than a parseable JSON array.
C2_LoadNeverRaises ==
  run[1].history.called
    => /\ run[1].history.exc = "none"
       /\ ~HoldsArray(file) => run[1].history.val = List(<<>>)

(* -------------------------------- C3 ---------------------------------- *)
\* C3: for a log of n records and any limit >= 0, load_history(limit) returns
\* exactly the last min(limit, n) records, oldest first.
C3_LastRecords ==
  (run[1].history.called /\ HoldsArray(file))
    => /\ run[1].history.exc = "none"
       /\ run[1].history.val
            = List(LastN(Records(file), Min(run[1].history.limit, Len(Records(file)))))

(* -------------------------------- C4 ---------------------------------- *)
\* C4: starting from an absent or empty file, after N save_history calls
\* load_history(limit) with limit >= N returns exactly those N records, in
\* the order in which they were appended.
C4_RoundTrip ==
  (fresh /\ run[1].history.called /\ run[1].history.limit >= Len(appended))
    => /\ run[1].history.exc = "none"
       /\ run[1].history.val = List(appended)

C4_Witness ==
  /\ fresh
  /\ run[1].history.called
  /\ Len(appended) = 2
  /\ appended[1] # appended[2]
  /\ run[1].history.limit = 2
  /\ run[1].history.val = List(appended)

(* -------------------------------- C5 ---------------------------------- *)
\* C5: save_history never raises because of the file's content: content that
\* cannot be read or is not a JSON array counts as an empty list, the call
\* returns with no error shown, and the file then holds exactly the new record.
C5_SaveToleratesContent ==
  SaveEnded(1)
    => /\ SaveReturned(1)
       /\ run[1].failure = "none"
       /\ ~HoldsArray(before[1]) => Records(file) = <<appended[Len(appended)]>>

(* -------------------------------- C6 ---------------------------------- *)
\* C6: the log is append-only.  A save_history on a file holding an array of k
\* elements leaves the k elements as they are and in place and adds the new
\* record as element k+1; a run that does not save (load_history included)
\* leaves the file as it is; so every record ever appended is still in the
\* file, in append order.
C6_AppendOnly ==
  /\ (pc[1] = "speak" /\ HoldsArray(before[1]))
       => Records(file) = Append(Records(before[1]), appended[Len(appended)])
  /\ pc[1] \in {"ready", "speak"} => IsSuffix(appended, Records(file))
  /\ (pc[1] = "done" /\ ~InSeq("save_history", run[1].calls)) => file = before[1]

C6_Witness ==
  /\ pc[1] = "speak"
  /\ Len(appended) = 2
  /\ Len(Records(before[1])) = 2
  /\ Len(Records(file)) = 3
  /\ Records(file)[1] = SeedEntry

(* -------------------------------- C7 ---------------------------------- *)
\* C7: translate, for either provider, returns a non-empty translated text or
\* raises one of the two provider errors (unsupported language, failed
\* request), and nothing else.
C7_TranslateOutcomes ==
  run[1].translated.called
    => \/ run[1].translated.exc = "none" /\ run[1].translated.text # <<>>
       \/ run[1].translated.exc \in {"ValueError", "RequestError"}

(* -------------------------------- C8 ---------------------------------- *)
\* C8: a click calls translate at most once; when translate returns, exactly
\* one record is appended, before speak_text is called and whatever speak_text
\* gives; when translate raises, the error is shown, save_history is not
\* called and the file is left as it was.
C8_TranslateHandler ==
  pc[1] = "done"
    => /\ Count("translate", run[1].calls) <= 1
       /\ (run[1].translated.called /\ run[1].translated.exc = "none")
            => /\ Count("saved", run[1].calls) = 1
               /\ Count("speak_text", run[1].calls) = 1
               /\ \E i, j \in 1..Len(run[1].calls) :
                    i < j /\ run[1].calls[i] = "saved" /\ run[1].calls[j] = "speak_text"
       /\ (run[1].translated.called /\ run[1].translated.exc # "none")
            => /\ InSeq("failed", run[1].shown)
               /\ ~InSeq("save_history", run[1].calls)
               /\ file = before[1]

(* -------------------------------- C9 ---------------------------------- *)
\* C9: save_history is an unlocked read-modify-write.  As long as no save has
\* written over a file that changed after the save had read it, no completed
\* append is lost (outside the moment between a writer's open and its write);
\* two sessions that both read before either writes lose one of the records.
C9_LostOnlyByRace ==
  (~raced /\ \A p \in Procs : pc[p] # "save_write") => IsSuffix(appended, Records(file))

\* Both sessions read the file before either wrote it, both saves have
\* returned, and the file holds the second record without the first.
C9_LostUpdate ==
  /\ Len(appended) = 2
  /\ seen[1] = seen[2]
  /\ \A p \in Procs : SaveReturned(p)
  /\ InSeq(appended[2], Records(file))
  /\ ~InSeq(appended[1], Records(file))

(* -------------------------------- C10 --------------------------------- *)
\* The code the claim has speak_text fall back to: the two-letter prefix.
TwoLetterPrefix(lang) == SubSeq(lang, 1, Min(2, Len(lang)))

====
